---- MODULE Spec2Model ----
(***************************************************************************)
(* A model of ooler_ble_client.client.OolerBLEDevice: the connection       *)
(* lifecycle (connect / stop / idle timer / unsolicited drop), the state   *)
(* poll, the notification handler and the command setters, running as      *)
(* asyncio tasks on one event loop.                                        *)
(*                                                                         *)
(* A step of the model is what the event loop runs without suspending: the *)
(* code from one await that really suspends (a transport call, or a wait   *)
(* on the connection lock) to the next one.  The BLE transport (bleak) is  *)
(* the environment: every awaited transport call returns or raises, a live *)
(* link may drop at any time, and the transport delivers notifications and *)
(* the disconnected callback.                                              *)
(*                                                                         *)
(* client.py is modelled as written.  It names the characteristics         *)
(* POWER_CHAR .. NAME_CHAR and builds OolerBLEState from ten values        *)
(* (client.py:190); the characteristics are modelled under those names and *)
(* the state record holds those ten fields.                                *)
(***************************************************************************)
EXTENDS Integers, Sequences, FiniteSets, TLC

(* ---------------------------------------------------------------- bounds *)
\* asyncio tasks one behaviour may start (API calls and timer-made tasks)
NTasks == 2
\* callbacks that may be registered at a time
MaxCallbacks == 1

(* ------------------------------------------------------------- constants *)
DISCONNECT_DELAY == 120
MODE_INT_TO_MODE_STATE == <<"Silent", "Regular", "Boost">>

\* The device objects.  The class-level attributes of OolerBLEDevice are
\* shared by all of them until an instance assigns its own.
Instances == {1, 2}
Tasks == 1..NTasks
CallbackIds == 1..MaxCallbacks

\* async_poll reads the characteristics in this order
PollChars == <<"POWER_CHAR", "MODE_CHAR", "SETTEMP_CHAR", "ACTUALTEMP_CHAR",
               "WATER_LEVEL_CHAR", "PUMP_WATTS_CHAR", "PUMP_VOLTS_CHAR",
               "CLEAN_CHAR", "NAME_CHAR">>
\* _ensure_connected subscribes, and _execute_disconnect unsubscribes, in this order
NotifyChars == <<"POWER_CHAR", "MODE_CHAR", "SETTEMP_CHAR", "ACTUALTEMP_CHAR",
                 "WATER_LEVEL_CHAR", "PUMP_WATTS_CHAR", "PUMP_VOLTS_CHAR",
                 "CLEAN_CHAR">>

\* The byte payloads the device may hold for a characteristic (a payload is a
\* sequence of bytes).  Mode index 3 is outside MODE_INT_TO_MODE_STATE.
Payloads(ch) ==
    CASE ch = "POWER_CHAR"      -> {<<0>>, <<1>>}
      [] ch = "MODE_CHAR"       -> {<<1>>, <<3>>}
      [] ch = "SETTEMP_CHAR"    -> {<<68>>}
      [] ch = "ACTUALTEMP_CHAR" -> {<<70>>}
      [] ch = "WATER_LEVEL_CHAR" -> {<<50>>}
      [] ch = "PUMP_WATTS_CHAR" -> {<<10>>}
      [] ch = "PUMP_VOLTS_CHAR" -> {<<12>>}
      [] ch = "CLEAN_CHAR"      -> {<<0>>}
      [] ch = "NAME_CHAR"       -> {<<79>>}

\* The arguments the host passes to the setters
SetPowerArgs == {TRUE, FALSE}
SetModeArgs == {"Boost"}
SetTemperatureArgs == {72}
SetCleanArgs == {TRUE}

(* ------------------------------------------------------------ wire codec *)
None == <<>>
Some(v) == <<v>>

RECURSIVE FromBytesLittle(_)
\* int.from_bytes(data, "little")
FromBytesLittle(b) ==
    IF b = <<>> THEN 0 ELSE Head(b) + 256 * FromBytesLittle(Tail(b))

\* bool(int.from_bytes(data, "little"))
DecodeBool(b) == FromBytesLittle(b) # 0

\* MODE_INT_TO_MODE_STATE[mode_int] raises IndexError outside the table
ModeIndexOk(n) == n >= 0 /\ n < Len(MODE_INT_TO_MODE_STATE)
DecodeMode(b) == MODE_INT_TO_MODE_STATE[FromBytesLittle(b) + 1]

\* name_byte.decode(encoding="ascii") raises on a byte above 127
AsciiOk(b) == \A k \in 1..Len(b) : b[k] < 128

\* int(value).to_bytes(1, "little")
BoolToInt(v) == IF v THEN 1 ELSE 0
ToBytes1Ok(n) == n >= 0 /\ n <= 255
ToBytes1(n) == <<n>>

\* A faulty variant of ModeIndexOf: counts the table from one
ModeIndexOfOneBased(mode) ==
    CHOOSE k \in 1..Len(MODE_INT_TO_MODE_STATE) :
        MODE_INT_TO_MODE_STATE[k] = mode

\* MODE_INT_TO_MODE_STATE.index(mode) raises ValueError when mode is absent
ModeIndexOf(mode) ==
    CHOOSE k \in 0..(Len(MODE_INT_TO_MODE_STATE) - 1) :
        MODE_INT_TO_MODE_STATE[k + 1] = mode
ModeKnown(mode) == \E k \in 1..Len(MODE_INT_TO_MODE_STATE) :
                       MODE_INT_TO_MODE_STATE[k] = mode

(* ----------------------------------------------------------------- state *)
VARIABLES
    tasks,               \* task -> [op, inst, pc, idx, buf, cl, arg]
    lock,                \* OolerBLEDevice._connect_lock (class level): holder, waiters
    client,              \* instance -> self._client: a session, 0 when None
    disconnect_timer,    \* instance -> self._disconnect_timer is a handle
    scheduled,           \* instance -> call_later timers pending in the loop
    expected_disconnect, \* instance -> self._expected_disconnect
    objs,                \* the OolerBLEState objects: 0 is the class-level one
    stateRef,            \* instance -> the object self._state refers to
    callbacks,           \* OolerBLEDevice._callbacks (class level)
    sessions,            \* the BleakClient objects opened so far
    last                 \* what the last step did: callbacks fired, transport calls

vars == <<tasks, lock, client, disconnect_timer, scheduled, expected_disconnect,
          objs, stateRef, callbacks, sessions, last>>

\* OolerBLEState()
EmptyState ==
    [power |-> None, mode |-> None, set_temperature |-> None,
     actual_temperature |-> None, water_level |-> None, pump_watts |-> None,
     pump_volts |-> None, clean |-> None, name |-> None, connected |-> FALSE]

SensorFields == {"power", "mode", "set_temperature", "actual_temperature",
                 "water_level", "pump_watts", "pump_volts", "clean", "name"}

NoTask == [op |-> "none", inst |-> 0, pc |-> "idle", idx |-> 0, buf |-> <<>>,
           cl |-> 0, arg |-> None]

NoStep == [act |-> "init", t |-> 0, arg |-> <<>>, fired |-> <<>>, io |-> <<>>,
           raised |-> FALSE]

Init ==
    /\ tasks = [t \in Tasks |-> NoTask]
    /\ lock = [holder |-> 0, waiters |-> <<>>]
    /\ client = [i \in Instances |-> 0]
    /\ disconnect_timer = [i \in Instances |-> FALSE]
    /\ scheduled = [i \in Instances |-> 0]
    /\ expected_disconnect = [i \in Instances |-> FALSE]
    /\ objs = [o \in {0} \cup Instances |-> EmptyState]
    /\ stateRef = [i \in Instances |-> 0]
    /\ callbacks = <<>>
    /\ sessions = <<>>
    /\ last = NoStep

\* The program state as one value W, so that the code's functions compose
World ==
    [tasks |-> tasks, lock |-> lock, client |-> client,
     disconnect_timer |-> disconnect_timer, scheduled |-> scheduled,
     expected_disconnect |-> expected_disconnect, objs |-> objs,
     stateRef |-> stateRef, callbacks |-> callbacks, sessions |-> sessions,
     last |-> NoStep]

Commit(W) ==
    /\ tasks' = W.tasks
    /\ lock' = W.lock
    /\ client' = W.client
    /\ disconnect_timer' = W.disconnect_timer
    /\ scheduled' = W.scheduled
    /\ expected_disconnect' = W.expected_disconnect
    /\ objs' = W.objs
    /\ stateRef' = W.stateRef
    /\ callbacks' = W.callbacks
    /\ sessions' = W.sessions
    /\ last' = W.last

\* The world at the start of the step `act` of task t
Begin(act, t, arg) ==
    [World EXCEPT !.last = [NoStep EXCEPT !.act = act, !.t = t, !.arg = arg]]


(* ------------------------------------------------- small steps of a task *)
Inst(W, t) == W.tasks[t].inst

\* self._state, as the instance sees it
St(W, i) == W.objs[W.stateRef[i]]

\* self._state.<f> = v: an assignment to a field of the object in place
SetField(W, i, f, v) == [W EXCEPT !.objs[W.stateRef[i]][f] = v]

\* a transport call issued in this step
Io(W, call, s, ch, data) ==
    [W EXCEPT !.last.io =
        Append(@, [call |-> call, s |-> s, ch |-> ch, data |-> data])]

\* the locals of a coroutine that has ended are gone
Ended(W, t, pc) ==
    [W EXCEPT !.tasks[t].pc = pc, !.tasks[t].idx = 0, !.tasks[t].buf = <<>>,
              !.tasks[t].cl = 0]

\* the coroutine of task t returns
Finish(W, t) == Ended(W, t, "done")

\* leaving `async with self._connect_lock` (asyncio.Lock.release)
ReleaseLock(W, t) ==
    IF W.lock.holder = t THEN [W EXCEPT !.lock.holder = 0] ELSE W

\* an exception leaves the coroutine of task t; none of the coroutines
\* catches anything, so it unwinds through the `async with`, if entered,
\* and reaches the caller
Raise(W, t) ==
    [Ended(ReleaseLock(W, t), t, "failed") EXCEPT !.last.raised = TRUE]

\* A faulty variant of LockFree: a lock that lets every caller in
LockIgnored(W) == TRUE

\* asyncio.Lock.acquire returns at once when the lock is free and nobody waits
LockFree(W) == W.lock.holder = 0 /\ W.lock.waiters = <<>>

(* ------------------------------------------------------ callback registry *)
\* _fire_callbacks: every registered callback, in order, with self._state
FireCallbacks(W, i) ==
    [W EXCEPT !.last.fired =
        @ \o [k \in 1..Len(W.callbacks) |->
                 [cb |-> W.callbacks[k], inst |-> i, state |-> St(W, i)]]]

\* _set_state_and_fire_callbacks: self._state = state binds an object of the
\* instance's own
SetStateAndFireCallbacks(W, i, new) ==
    IF St(W, i) # new
    THEN FireCallbacks([W EXCEPT !.objs[i] = new, !.stateRef[i] = i], i)
    ELSE W

(* ---------------------------------------------------------- is_connected *)
\* the value of the property
IsConnected(W, i) ==
    IF W.client[i] = 0 THEN FALSE ELSE W.sessions[W.client[i]].live

\* the property's side effect on self._state.connected
IsConnectedEffect(W, i) ==
    IF IsConnected(W, i) /\ ~St(W, i).connected
    THEN SetField(W, i, "connected", TRUE)
    ELSE W

(* ------------------------------------------------------------ idle timer *)
\* A faulty variant of ResetDisconnectTimerAfter: schedules whatever the
\* delay is
ResetDisconnectTimerAlways(W, i, delay) ==
    LET W1 == IF W.disconnect_timer[i]
              THEN [W EXCEPT !.scheduled[i] = @ - 1]
              ELSE W
    IN  [W1 EXCEPT !.disconnect_timer[i] = TRUE, !.scheduled[i] = @ + 1]

\* _reset_disconnect_timer with DISCONNECT_DELAY = delay: cancel the handle
\* kept, if any, and schedule a new one if the delay is positive
ResetDisconnectTimerAfter(W, i, delay) ==
    LET W1 == IF W.disconnect_timer[i]
              THEN [W EXCEPT !.scheduled[i] = @ - 1]
              ELSE W
    IN  IF delay > 0
        THEN [W1 EXCEPT !.disconnect_timer[i] = TRUE, !.scheduled[i] = @ + 1]
        ELSE W1

\* A faulty variant of ResetDisconnectTimer: schedules without cancelling
ResetDisconnectTimerNoCancel(W, i) ==
    IF DISCONNECT_DELAY > 0
    THEN [W EXCEPT !.disconnect_timer[i] = TRUE, !.scheduled[i] = @ + 1]
    ELSE W

\* _reset_disconnect_timer
ResetDisconnectTimer(W, i) == ResetDisconnectTimerAfter(W, i, DISCONNECT_DELAY)


(* -------------------------------------------------------------- commands *)
SetterOps == {"set_power", "set_mode", "set_temperature", "set_clean"}

SetterChar(op) ==
    CASE op = "set_power" -> "POWER_CHAR"
      [] op = "set_mode" -> "MODE_CHAR"
      [] op = "set_temperature" -> "SETTEMP_CHAR"
      [] op = "set_clean" -> "CLEAN_CHAR"

SetterField(op) ==
    CASE op = "set_power" -> "power"
      [] op = "set_mode" -> "mode"
      [] op = "set_temperature" -> "set_temperature"
      [] op = "set_clean" -> "clean"

\* whether the setter's encoding of v succeeds (index / to_bytes may raise)
EncodeOk(op, v) ==
    CASE op = "set_mode" -> ModeKnown(v)
      [] op = "set_temperature" -> ToBytes1Ok(v)
      [] OTHER -> TRUE

\* the bytes the setter writes for v
Encode(op, v) ==
    CASE op = "set_mode" -> ToBytes1(ModeIndexOf(v))
      [] op = "set_temperature" -> ToBytes1(v)
      [] OTHER -> ToBytes1(BoolToInt(v))

\* the first argument of the four setters, as a task keeps it
Arg(W, t) == W.tasks[t].arg[1]

(* ----------------------------------------------- connect and the setters *)
RECURSIVE EnsureConnected(_, _), EnsureConnectedLocked(_, _),
          ConnectReturned(_, _), SetterCall(_, _)

\* A faulty variant of RecheckConnected: no second look under the lock
RecheckSkipped(W, i) == FALSE

\* client.py:103, the check repeated while holding the lock
RecheckConnected(W, i) == IsConnected(W, i)

\* set_power / set_mode / set_temperature / set_clean, from their first line
\* to the await of the write, or into connect() when self._client is None
SetterCall(W, t) ==
    LET i == Inst(W, t)
        op == W.tasks[t].op
        c == W.client[i]
    IN  IF c # 0
        THEN IF EncodeOk(op, Arg(W, t))
             THEN Io([W EXCEPT !.tasks[t].pc = "write", !.tasks[t].cl = c],
                     "write", c, SetterChar(op), Encode(op, Arg(W, t)))
             ELSE Raise(W, t)
        ELSE EnsureConnected(W, t)

\* connect() has returned normally to the code that awaited it: the caller
\* of the API for connect(), `return await self.connect()` in async_poll,
\* and the setter's call of itself after `await self.connect()`
ConnectReturned(W, t) ==
    IF W.tasks[t].op \in SetterOps THEN SetterCall(W, t) ELSE Finish(W, t)

\* _ensure_connected once it holds the lock, to the await of
\* establish_connection
EnsureConnectedLocked(W, t) ==
    LET i == Inst(W, t) IN
    IF RecheckConnected(W, i)
    THEN ConnectReturned(
             ReleaseLock(ResetDisconnectTimer(IsConnectedEffect(W, i), i), t), t)
    ELSE Io([W EXCEPT !.tasks[t].pc = "establish"], "establish", 0, "", <<>>)

\* _ensure_connected from its first line: returns, goes on under the lock,
\* or queues on the lock
EnsureConnected(W, t) ==
    LET i == Inst(W, t) IN
    IF IsConnected(W, i)
    THEN ConnectReturned(ResetDisconnectTimer(IsConnectedEffect(W, i), i), t)
    ELSE IF LockFree(W)
         THEN EnsureConnectedLocked([W EXCEPT !.lock.holder = t], t)
         ELSE [W EXCEPT !.lock.waiters = Append(@, t),
                        !.tasks[t].pc = "wait_lock"]

(* ------------------------------------------------------------------ poll *)
\* client.read_gatt_char(PollChars[k]) is awaited on session c
IssueRead(W, t, c, k) ==
    Io([W EXCEPT !.tasks[t].pc = "read", !.tasks[t].idx = k, !.tasks[t].cl = c],
       "read", c, PollChars[k], <<>>)

\* A faulty variant of AsyncPoll: the poll takes the connection lock for
\* its reads, also when connect() calls it with the lock held
AsyncPollLocksAgain(W, t) ==
    LET c == W.client[Inst(W, t)] IN
    IF c = 0
    THEN EnsureConnected(W, t)
    ELSE IF LockFree(W)
         THEN IssueRead([W EXCEPT !.tasks[t].buf = <<>>], t, c, 1)
         ELSE [W EXCEPT !.lock.waiters = Append(@, t),
                        !.tasks[t].pc = "wait_lock"]

\* async_poll from its first line to its first await
AsyncPoll(W, t) ==
    LET c == W.client[Inst(W, t)] IN
    IF c = 0
    THEN EnsureConnected(W, t)
    ELSE IssueRead([W EXCEPT !.tasks[t].buf = <<>>], t, c, 1)

\* whether the decoding of the nine payloads raises (client.py:179-188)
PollDecodeOk(buf) ==
    /\ ModeIndexOk(FromBytesLittle(buf[2]))
    /\ AsciiOk(buf[9])

\* OolerBLEState(power, mode, settemp_int, ..., name, True)
PollState(buf) ==
    [power |-> Some(DecodeBool(buf[1])),
     mode |-> Some(DecodeMode(buf[2])),
     set_temperature |-> Some(FromBytesLittle(buf[3])),
     actual_temperature |-> Some(FromBytesLittle(buf[4])),
     water_level |-> Some(FromBytesLittle(buf[5])),
     pump_watts |-> Some(FromBytesLittle(buf[6])),
     pump_volts |-> Some(FromBytesLittle(buf[7])),
     clean |-> Some(DecodeBool(buf[8])),
     name |-> Some(buf[9]),
     connected |-> TRUE]

\* client.start_notify(NotifyChars[k], ...) is awaited on session c
IssueStartNotify(W, t, c, k) ==
    Io([W EXCEPT !.tasks[t].pc = "sub", !.tasks[t].idx = k],
       "start_notify", c, NotifyChars[k], <<>>)

\* A faulty variant of PollFinish: stores each field as it is decoded, so
\* that power is already stored when the mode index raises
PollFinishInPlace(W, t) ==
    LET i == Inst(W, t)
        buf == W.tasks[t].buf
    IN  IF ~PollDecodeOk(buf)
        THEN Raise(SetField(W, i, "power", Some(DecodeBool(buf[1]))), t)
        ELSE LET W1 == SetStateAndFireCallbacks(
                           [W EXCEPT !.tasks[t].buf = <<>>], i, PollState(buf))
             IN
             IF W1.lock.holder = t
             THEN IssueStartNotify(W1, t, W1.tasks[t].cl, 1)
             ELSE Finish(W1, t)

\* the code after the last read: decode, change-gated update, and then,
\* inside _ensure_connected, the first start_notify
PollFinish(W, t) ==
    LET i == Inst(W, t)
        buf == W.tasks[t].buf
    IN  IF ~PollDecodeOk(buf)
        THEN Raise(W, t)
        ELSE LET W1 == SetStateAndFireCallbacks(
                           [W EXCEPT !.tasks[t].buf = <<>>], i, PollState(buf))
             IN
             IF W1.lock.holder = t
             THEN IssueStartNotify(W1, t, W1.tasks[t].cl, 1)
             ELSE Finish(W1, t)


\* a read has returned `data`: the next read, or the end of the poll
ReadReturned(W, t, data) ==
    LET k == W.tasks[t].idx
        W1 == [W EXCEPT !.tasks[t].buf = Append(@, data)]
    IN  IF k < Len(PollChars)
        THEN IssueRead(W1, t, W1.tasks[t].cl, k + 1)
        ELSE PollFinish(W1, t)

\* A faulty variant of Established: announces the connection to the
\* callbacks before the initial poll
EstablishedFiring(W, t) ==
    LET i == Inst(W, t)
        c == Len(W.sessions) + 1
        W1 == [W EXCEPT !.sessions = Append(@, [inst |-> i, live |-> TRUE,
                                                subs |-> {}]),
                        !.client[i] = c]
    IN  AsyncPoll(ResetDisconnectTimer(
                      FireCallbacks(SetField(W1, i, "connected", TRUE), i), i), t)

\* establish_connection has returned a new client (client.py:115-119)
Established(W, t) ==
    LET i == Inst(W, t)
        c == Len(W.sessions) + 1
        W1 == [W EXCEPT !.sessions = Append(@, [inst |-> i, live |-> TRUE,
                                                subs |-> {}]),
                        !.client[i] = c]
    IN  AsyncPoll(ResetDisconnectTimer(W1, i), t)

\* a start_notify has returned: the next one, or the end of
\* _ensure_connected
StartNotifyReturned(W, t) ==
    LET k == W.tasks[t].idx
        c == W.tasks[t].cl
        W1 == [W EXCEPT !.sessions[c].subs = @ \cup {NotifyChars[k]}]
    IN  IF k < Len(NotifyChars)
        THEN IssueStartNotify(W1, t, c, k + 1)
        ELSE ConnectReturned(ReleaseLock(W1, t), t)

\* A faulty variant of WriteReturned: leaves the field to the echo
\* notification
WriteReturnedNoUpdate(W, t) == Finish(W, t)

\* the write of a setter has returned: the optimistic assignment
WriteReturned(W, t) ==
    Finish(SetField(W, Inst(W, t), SetterField(W.tasks[t].op),
                    Some(Arg(W, t))), t)

(* ------------------------------------------------------------ disconnect *)
\* client.stop_notify(NotifyChars[k]) is awaited on session c
IssueStopNotify(W, t, c, k) ==
    Io([W EXCEPT !.tasks[t].pc = "unsub", !.tasks[t].idx = k, !.tasks[t].cl = c],
       "stop_notify", c, NotifyChars[k], <<>>)

\* A faulty variant of ExecuteDisconnectLocked: does not ask whether the
\* link is still up
ExecuteDisconnectLockedAnyHandle(W, t) ==
    LET i == Inst(W, t)
        c == W.client[i]
        W1 == [W EXCEPT !.expected_disconnect[i] = TRUE, !.client[i] = 0]
    IN  IF c # 0
        THEN IssueStopNotify(W1, t, c, 1)
        ELSE Finish(ReleaseLock(W1, t), t)

\* _execute_disconnect once it holds the lock (client.py:277-281)
ExecuteDisconnectLocked(W, t) ==
    LET i == Inst(W, t)
        c == W.client[i]
        W1 == [W EXCEPT !.expected_disconnect[i] = TRUE, !.client[i] = 0]
    IN  IF c # 0 /\ W.sessions[c].live
        THEN IssueStopNotify(W1, t, c, 1)
        ELSE Finish(ReleaseLock(W1, t), t)

\* _execute_disconnect from its first line (stop and the timer's task)
ExecuteDisconnect(W, t) ==
    IF LockFree(W)
    THEN ExecuteDisconnectLocked([W EXCEPT !.lock.holder = t], t)
    ELSE [W EXCEPT !.lock.waiters = Append(@, t), !.tasks[t].pc = "wait_lock"]

\* a stop_notify has returned: the next one, or client.disconnect()
StopNotifyReturned(W, t) ==
    LET k == W.tasks[t].idx
        c == W.tasks[t].cl
        W1 == [W EXCEPT !.sessions[c].subs = @ \ {NotifyChars[k]}]
    IN  IF k < Len(NotifyChars)
        THEN IssueStopNotify(W1, t, c, k + 1)
        ELSE Io([W1 EXCEPT !.tasks[t].pc = "disc"], "disconnect", c, "", <<>>)

\* client.disconnect() has returned: the session is closed
Disconnected(W, t) ==
    LET c == W.tasks[t].cl IN
    Finish(ReleaseLock([W EXCEPT !.sessions[c].live = FALSE], t), t)

\* A faulty variant of TimerFired: clears the handle and makes no task
TimerFiredNoTask(W, i, t) ==
    [W EXCEPT !.disconnect_timer[i] = FALSE, !.scheduled[i] = @ - 1]

\* _disconnect, the timer's callback: clears the handle and makes the task
TimerFired(W, i, t) ==
    [W EXCEPT !.disconnect_timer[i] = FALSE,
              !.scheduled[i] = @ - 1,
              !.tasks[t] = [NoTask EXCEPT !.op = "timed_disconnect",
                                          !.inst = i, !.pc = "start"]]

(* ------------------------------------------ handlers the transport calls *)
NotifyField(ch) ==
    CASE ch = "POWER_CHAR" -> "power"
      [] ch = "MODE_CHAR" -> "mode"
      [] ch = "SETTEMP_CHAR" -> "set_temperature"
      [] ch = "ACTUALTEMP_CHAR" -> "actual_temperature"
      [] ch = "WATER_LEVEL_CHAR" -> "water_level"
      [] ch = "PUMP_WATTS_CHAR" -> "pump_watts"
      [] ch = "PUMP_VOLTS_CHAR" -> "pump_volts"
      [] ch = "CLEAN_CHAR" -> "clean"

\* the value _notification_handler stores for a payload of ch
NotifyValue(ch, data) ==
    CASE ch \in {"POWER_CHAR", "CLEAN_CHAR"} -> DecodeBool(data)
      [] ch = "MODE_CHAR" -> DecodeMode(data)
      [] OTHER -> FromBytesLittle(data)

\* whether _notification_handler raises on the payload
NotifyDecodeOk(ch, data) ==
    ch = "MODE_CHAR" => ModeIndexOk(FromBytesLittle(data))

\* _notification_handler(sender, data) of instance i; an exception goes to
\* the transport that called the handler
NotificationHandler(W, i, ch, data) ==
    IF ~NotifyDecodeOk(ch, data)
    THEN [W EXCEPT !.last.raised = TRUE]
    ELSE FireCallbacks(
             IF ch \in {NotifyChars[k] : k \in 1..Len(NotifyChars)}
             THEN SetField(W, i, NotifyField(ch), Some(NotifyValue(ch, data)))
             ELSE W, i)

\* A faulty variant of DisconnectedCallbackHandler: starts from a fresh
\* OolerBLEState
DisconnectedCallbackResets(W, i) ==
    FireCallbacks([W EXCEPT !.objs[W.stateRef[i]] = EmptyState], i)

\* _disconnected_callback(client) of instance i
DisconnectedCallbackHandler(W, i) ==
    FireCallbacks(SetField(W, i, "connected", FALSE), i)


(* --------------------------------------------------------------- actions *)
\* The instance the host drives in Spec
Devices == {1}

\* Tasks are started in the order of their numbers
FreeSlot(t) ==
    /\ tasks[t].op = "none"
    /\ \A u \in Tasks : u < t => tasks[u].op # "none"

\* the world in which task t starts to run `op` of instance i
Start(t, op, i, arg) ==
    [Begin(op, t, arg) EXCEPT
        !.tasks[t] = [NoTask EXCEPT !.op = op, !.inst = i, !.pc = "run", !.arg = arg]]

At(t, pc) == tasks[t].pc = pc

Live(s) == s # 0 /\ sessions[s].live

\* A task opens at most one session, so the sessions are numbered within
SessionIds == 1..NTasks

\* register_callback(callback)
RegisterCallback(c) ==
    /\ Len(callbacks) < MaxCallbacks
    /\ \A k \in 1..Len(callbacks) : callbacks[k] # c
    /\ Commit([Begin("register_callback", 0, <<c>>) EXCEPT
                  !.callbacks = Append(@, c)])

\* the function register_callback returned: self._callbacks.remove(callback)
UnregisterCallback(c) ==
    /\ \E k \in 1..Len(callbacks) : callbacks[k] = c
    /\ Commit([Begin("unregister_callback", 0, <<c>>) EXCEPT
                  !.callbacks = SelectSeq(@, LAMBDA x : x # c)])

\* connect()
CallConnect(t, i) ==
    /\ FreeSlot(t)
    /\ Commit(EnsureConnected(Start(t, "connect", i, None), t))

\* stop()
CallStop(t, i) ==
    /\ FreeSlot(t)
    /\ Commit(ExecuteDisconnect(Start(t, "stop", i, None), t))

\* async_poll()
CallPoll(t, i) ==
    /\ FreeSlot(t)
    /\ Commit(AsyncPoll(Start(t, "poll", i, None), t))

\* set_power(power)
CallSetPower(t, i, v) ==
    /\ FreeSlot(t)
    /\ Commit(SetterCall(Start(t, "set_power", i, Some(v)), t))

\* set_mode(mode)
CallSetMode(t, i, v) ==
    /\ FreeSlot(t)
    /\ Commit(SetterCall(Start(t, "set_mode", i, Some(v)), t))

\* set_temperature(settemp_int)
CallSetTemperature(t, i, v) ==
    /\ FreeSlot(t)
    /\ Commit(SetterCall(Start(t, "set_temperature", i, Some(v)), t))

\* set_clean(clean)
CallSetClean(t, i, v) ==
    /\ FreeSlot(t)
    /\ Commit(SetterCall(Start(t, "set_clean", i, Some(v)), t))

\* a task at the head of the lock's queue gets the lock and goes on
AcquireLock(t) ==
    /\ At(t, "wait_lock")
    /\ lock.holder = 0
    /\ lock.waiters # <<>>
    /\ Head(lock.waiters) = t
    /\ LET W == [Begin("acquire", t, <<>>) EXCEPT
                    !.lock = [holder |-> t, waiters |-> Tail(lock.waiters)]]
       IN  IF tasks[t].op \in {"stop", "timed_disconnect"}
           THEN Commit(ExecuteDisconnectLocked(W, t))
           ELSE Commit(EnsureConnectedLocked(W, t))

\* establish_connection returns a connected client
EstablishReturns(t) ==
    /\ At(t, "establish")
    /\ Commit(Established(Begin("established", t, <<>>), t))

\* establish_connection raises
EstablishFails(t) ==
    /\ At(t, "establish")
    /\ Commit(Raise(Begin("establish_failed", t, <<>>), t))

\* read_gatt_char returns a payload
ReadReturns(t, data) ==
    /\ At(t, "read")
    /\ Live(tasks[t].cl)
    /\ data \in Payloads(PollChars[tasks[t].idx])
    /\ Commit(ReadReturned(Begin("read_returned", t, <<tasks[t].idx>>), t, data))

\* read_gatt_char raises
ReadFails(t) ==
    /\ At(t, "read")
    /\ Commit(Raise(Begin("read_failed", t, <<tasks[t].idx>>), t))

\* start_notify returns
StartNotifyReturns(t) ==
    /\ At(t, "sub")
    /\ Live(tasks[t].cl)
    /\ Commit(StartNotifyReturned(Begin("start_notify_returned", t, <<>>), t))

\* start_notify raises
StartNotifyFails(t) ==
    /\ At(t, "sub")
    /\ Commit(Raise(Begin("start_notify_failed", t, <<>>), t))

\* write_gatt_char returns
WriteReturns(t) ==
    /\ At(t, "write")
    /\ Live(tasks[t].cl)
    /\ Commit(WriteReturned(Begin("write_returned", t, <<>>), t))

\* write_gatt_char raises
WriteFails(t) ==
    /\ At(t, "write")
    /\ Commit(Raise(Begin("write_failed", t, <<>>), t))

\* stop_notify returns
StopNotifyReturns(t) ==
    /\ At(t, "unsub")
    /\ Live(tasks[t].cl)
    /\ Commit(StopNotifyReturned(Begin("stop_notify_returned", t, <<>>), t))

\* stop_notify raises
StopNotifyFails(t) ==
    /\ At(t, "unsub")
    /\ Commit(Raise(Begin("stop_notify_failed", t, <<>>), t))

\* client.disconnect() returns
DisconnectReturns(t) ==
    /\ At(t, "disc")
    /\ Commit(Disconnected(Begin("disconnect_returned", t, <<tasks[t].cl>>), t))

\* client.disconnect() raises
DisconnectFails(t) ==
    /\ At(t, "disc")
    /\ Commit(Raise(Begin("disconnect_failed", t, <<>>), t))

\* the idle timer of instance i fires: the loop calls _disconnect
TimerFires(t, i) ==
    /\ scheduled[i] > 0
    /\ FreeSlot(t)
    /\ Commit(TimerFired(Begin("timer_fired", t, <<>>), i, t))

\* the task made by _disconnect starts: _execute_timed_disconnect
TimedDisconnectStarts(t) ==
    /\ At(t, "start")
    /\ Commit(ExecuteDisconnect(
                  [Begin("timed_disconnect", t, <<>>) EXCEPT !.tasks[t].pc = "run"], t))

\* the link of a session is lost
LinkDrops(s) ==
    /\ s \in 1..Len(sessions)
    /\ sessions[s].live
    /\ Commit([Begin("link_dropped", 0, <<s>>) EXCEPT !.sessions[s].live = FALSE])

\* the transport calls the disconnected callback given to
\* establish_connection, for a session that has ended; when, and how often,
\* is the transport's choice
DisconnectedCallback(s) ==
    /\ s \in 1..Len(sessions)
    /\ ~sessions[s].live
    /\ Commit(DisconnectedCallbackHandler(
                  Begin("disconnected_callback", 0, <<s>>), sessions[s].inst))

\* the transport delivers a notification of a subscribed characteristic
Notification(s, ch, data) ==
    /\ s \in 1..Len(sessions)
    /\ sessions[s].live
    /\ ch \in sessions[s].subs
    /\ data \in Payloads(ch)
    /\ Commit(NotificationHandler(Begin("notification", 0, <<s, ch, data>>),
                                  sessions[s].inst, ch, data))

\* the steps of the tasks, of the idle timer and of the link
TaskSteps ==
    \/ \E t \in Tasks : AcquireLock(t)
    \/ \E t \in Tasks : EstablishReturns(t)
    \/ \E t \in Tasks : EstablishFails(t)
    \/ \E t \in Tasks, k \in DOMAIN PollChars :
           \E data \in Payloads(PollChars[k]) : ReadReturns(t, data)
    \/ \E t \in Tasks : ReadFails(t)
    \/ \E t \in Tasks : StartNotifyReturns(t)
    \/ \E t \in Tasks : StartNotifyFails(t)
    \/ \E t \in Tasks : StopNotifyReturns(t)
    \/ \E t \in Tasks : StopNotifyFails(t)
    \/ \E t \in Tasks : DisconnectReturns(t)
    \/ \E t \in Tasks : DisconnectFails(t)
    \/ \E t \in Tasks, i \in Devices : TimerFires(t, i)
    \/ \E t \in Tasks : TimedDisconnectStarts(t)
    \/ \E s \in SessionIds : LinkDrops(s)

\* the transport calls the handlers it was given
Handlers ==
    \/ \E s \in SessionIds : DisconnectedCallback(s)
    \/ \E s \in SessionIds, k \in DOMAIN NotifyChars :
           \E data \in Payloads(NotifyChars[k]) :
               Notification(s, NotifyChars[k], data)

\* the steps of the tasks and of the transport
System == TaskSteps \/ Handlers

\* the host registers callbacks
Registry ==
    \/ \E c \in CallbackIds : RegisterCallback(c)
    \/ \E c \in CallbackIds : UnregisterCallback(c)

\* the host connects, polls and stops
Lifecycle ==
    \/ \E t \in Tasks, i \in Devices : CallConnect(t, i)
    \/ \E t \in Tasks, i \in Devices : CallStop(t, i)
    \/ \E t \in Tasks, i \in Devices : CallPoll(t, i)

\* the host issues commands, and their writes return
Commands ==
    \/ \E t \in Tasks : WriteReturns(t)
    \/ \E t \in Tasks : WriteFails(t)
    \/ \E t \in Tasks, i \in Devices, v \in SetPowerArgs : CallSetPower(t, i, v)
    \/ \E t \in Tasks, i \in Devices, v \in SetModeArgs : CallSetMode(t, i, v)
    \/ \E t \in Tasks, i \in Devices, v \in SetTemperatureArgs :
           CallSetTemperature(t, i, v)
    \/ \E t \in Tasks, i \in Devices, v \in SetCleanArgs : CallSetClean(t, i, v)

\* A host that connects, polls and stops
Next == Registry \/ Lifecycle \/ System

Spec == Init /\ [][Next]_vars

\* A host that connects and issues commands
NextCmd ==
    \/ \E t \in Tasks, i \in Devices : CallConnect(t, i)
    \/ Commands
    \/ System

SpecCmd == Init /\ [][NextCmd]_vars


\* the coroutines of the tasks that have ended are released, and with them
\* the tasks' numbers, once nothing is running
Forget ==
    /\ \E t \in Tasks : tasks[t].op # "none"
    /\ \A t \in Tasks : tasks[t].pc \in {"idle", "done", "failed"}
    /\ Commit([Begin("forget", 0, <<>>) EXCEPT !.tasks = [t \in Tasks |-> NoTask]])

\* nothing is running and nothing that ended is kept
HostIdle == \A t \in Tasks : tasks[t].op = "none"

\* the host calls connect() once its last call has ended, as long as the
\* transport has a session to give (it opens as many as SessionIds numbers)
ConnectAgain(t, i) ==
    /\ HostIdle
    /\ Len(sessions) < Cardinality(SessionIds)
    /\ CallConnect(t, i)

\* the host calls stop() once its last call has ended
StopAgain(t, i) ==
    /\ HostIdle
    /\ CallStop(t, i)

\* A host that connects and stops any number of times, making a call when
\* nothing else is running, while the idle timer runs its own tasks
NextSeries ==
    \/ \E t \in Tasks, i \in Devices : ConnectAgain(t, i)
    \/ \E t \in Tasks, i \in Devices : StopAgain(t, i)
    \/ Forget
    \/ TaskSteps

SpecSeries == Init /\ [][NextSeries]_vars

\* A host that registers a callback, connects and switches the power
NextWatched ==
    \/ \E c \in CallbackIds : RegisterCallback(c)
    \/ \E t \in Tasks, i \in Devices : CallConnect(t, i)
    \/ \E t \in Tasks, i \in Devices, v \in SetPowerArgs : CallSetPower(t, i, v)
    \/ \E t \in Tasks : WriteReturns(t)
    \/ \E t \in Tasks : WriteFails(t)
    \/ System

SpecWatched == Init /\ [][NextWatched]_vars

\* A host that connects once and then leaves the instance alone
NextIdle ==
    \/ \E i \in Devices : CallConnect(1, i)
    \/ System

\* The loop runs a timer that is due and a task that can run, the lock goes
\* to the waiter at its head, and the transport answers the calls of a
\* disconnect, one way or the other
FairIdle ==
    /\ WF_vars(\E t \in Tasks, i \in Devices : TimerFires(t, i))
    /\ WF_vars(\E t \in Tasks : TimedDisconnectStarts(t))
    /\ WF_vars(\E t \in Tasks : AcquireLock(t))
    /\ WF_vars(\E t \in Tasks : StopNotifyReturns(t) \/ StopNotifyFails(t))
    /\ WF_vars(\E t \in Tasks : DisconnectReturns(t) \/ DisconnectFails(t))

SpecIdle == Init /\ [][NextIdle]_vars /\ FairIdle

\* A characteristic _notification_handler has no branch for, and its bytes
UnmappedChars == {"UNMAPPED_CHAR"}
UnmappedPayloads == {<<1>>}

\* _notification_handler is called with a sender it has no branch for, on a
\* session that has been given the handler
StrayNotification(s, ch, data) ==
    /\ s \in 1..Len(sessions)
    /\ sessions[s].live
    /\ sessions[s].subs # {}
    /\ ch \in UnmappedChars
    /\ data \in UnmappedPayloads
    /\ Commit(NotificationHandler(Begin("stray_notification", 0, <<s, ch, data>>),
                                  sessions[s].inst, ch, data))

\* A host that registers a callback and connects, and a transport that also
\* notifies what the handler does not know
NextStray ==
    \/ \E c \in CallbackIds : RegisterCallback(c)
    \/ \E i \in Devices : CallConnect(1, i)
    \/ \E s \in SessionIds, ch \in UnmappedChars, data \in UnmappedPayloads :
           StrayNotification(s, ch, data)
    \/ System

SpecStray == Init /\ [][NextStray]_vars

\* the host calls connect(), whatever else is running, as long as the
\* transport has a session to give
ConnectAnew(t, i) ==
    /\ Len(sessions) < Cardinality(SessionIds)
    /\ CallConnect(t, i)

\* A host that calls connect() any number of times while the idle timer
\* runs its own tasks
NextRearm ==
    \/ \E t \in Tasks, i \in Devices : ConnectAnew(t, i)
    \/ Forget
    \/ TaskSteps

SpecRearm == Init /\ [][NextRearm]_vars

\* The instance whose register_callback the host of SpecPair calls: the
\* callbacks in `callbacks` are the ones registered on it
Watched == 1

\* the idle timer of an instance the host of Spec does not drive
OtherTimerFires(t, i) ==
    /\ i \notin Devices
    /\ TimerFires(t, i)

\* A host with two OolerBLEDevice objects: it registers a callback on one
\* and connects either
NextPair ==
    \/ \E c \in CallbackIds : RegisterCallback(c)
    \/ \E t \in Tasks, i \in Instances : CallConnect(t, i)
    \/ \E t \in Tasks, i \in Instances : OtherTimerFires(t, i)
    \/ System

SpecPair == Init /\ [][NextPair]_vars

(* ------------------------------------------------------------- the codec *)
\* The setters' encodings and the handler's decodings on their own: a value
\* is given to a setter, the setter encodes it (or raises), and the bytes
\* come back in a notification of the same characteristic.  The value, the
\* bytes and the decoded value are kept in `last`.
CodecInput(op, v) ==
    /\ tasks = [t \in Tasks |-> NoTask]
    /\ lock = [holder |-> 0, waiters |-> <<>>]
    /\ client = [i \in Instances |-> 0]
    /\ disconnect_timer = [i \in Instances |-> FALSE]
    /\ scheduled = [i \in Instances |-> 0]
    /\ expected_disconnect = [i \in Instances |-> FALSE]
    /\ objs = [o \in {0} \cup Instances |-> EmptyState]
    /\ stateRef = [i \in Instances |-> 0]
    /\ callbacks = <<>>
    /\ sessions = <<>>
    /\ last = [NoStep EXCEPT !.act = "codec_input", !.arg = <<op, v>>]

\* booleans; the three modes and a name outside the table; every one-byte
\* temperature and the integers next to the range
InitCodec ==
    \/ \E v \in BOOLEAN : CodecInput("set_power", v)
    \/ \E v \in BOOLEAN : CodecInput("set_clean", v)
    \/ \E v \in {"Silent", "Regular", "Boost", "Turbo"} : CodecInput("set_mode", v)
    \/ \E v \in (0 - 1)..256 : CodecInput("set_temperature", v)

CodecFrame ==
    UNCHANGED <<tasks, lock, client, disconnect_timer, scheduled,
                expected_disconnect, objs, stateRef, callbacks, sessions>>

\* the setter encodes its argument (client.py:196, 208-209, 221, 233)
EncodeValue ==
    /\ last.act = "codec_input"
    /\ EncodeOk(last.arg[1], last.arg[2])
    /\ last' = [last EXCEPT
                    !.act = "encoded",
                    !.io = <<[call |-> "write", s |-> 0,
                              ch |-> SetterChar(last.arg[1]),
                              data |-> Encode(last.arg[1], last.arg[2])]>>]
    /\ CodecFrame

\* the setter's encoding raises
EncodeRaises ==
    /\ last.act = "codec_input"
    /\ ~EncodeOk(last.arg[1], last.arg[2])
    /\ last' = [last EXCEPT !.act = "encode_failed", !.raised = TRUE]
    /\ CodecFrame

\* the handler decodes the bytes (client.py:136-160)
DecodeValue ==
    /\ last.act = "encoded"
    /\ NotifyDecodeOk(last.io[1].ch, last.io[1].data)
    /\ last' = [last EXCEPT
                    !.act = "decoded",
                    !.arg = <<last.arg[1], last.arg[2],
                              NotifyValue(last.io[1].ch, last.io[1].data)>>]
    /\ CodecFrame

NextCodec == EncodeValue \/ EncodeRaises \/ DecodeValue

SpecCodec == InitCodec /\ [][NextCodec]_vars


(* ------------------------------------------------------------ properties *)
\* self._state of instance i
DeviceState(i) == objs[stateRef[i]]

\* instance i holds a handle whose link is up
HandleLive(i) == client[i] # 0 /\ sessions[client[i]].live

\* the task that took the last step
LastTask == tasks[last.t]

\* no DeviceState object changes and no instance rebinds self._state
StateUntouched == objs' = objs /\ stateRef' = stateRef

(* C1 *)
\* every task started so far is a connect() that has not failed
OnlyConnects ==
    \A t \in Tasks : tasks[t].op \in {"none", "connect"} /\ tasks[t].pc # "failed"

\* no session has dropped or been closed
AllLive == \A s \in 1..Len(sessions) : sessions[s].live

\* establish_connection calls made so far, when none has raised
OpenCalls == Len(sessions) + Cardinality({t \in Tasks : tasks[t].pc = "establish"})

\* C1: while connect() calls are all that runs on a disconnected instance
\* and the transport neither fails nor drops, however the calls interleave,
\* establish_connection has been invoked exactly once.
C1_SingleOpen ==
    (OnlyConnects /\ AllLive /\ tasks[1].op = "connect") => OpenCalls = 1

\* a connect() that queued on the lock has returned without opening
C1_Witness ==
    /\ last.act = "acquire"
    /\ LastTask.op = "connect"
    /\ LastTask.pc = "done"
    /\ OnlyConnects
    /\ AllLive
    /\ OpenCalls = 1


(* C2 *)
\* the step is a connect() call made while instance i holds a live handle
ConnectOnLiveHandle(i) ==
    /\ last'.act = "connect"
    /\ tasks'[last'.t].inst = i
    /\ HandleLive(i)

SameAsStored(i, ch, data) ==
    /\ NotifyDecodeOk(ch, data)
    /\ DeviceState(i)[NotifyField(ch)] = Some(NotifyValue(ch, data))

\* C3: a notification whose decoded value equals the stored field value
\* fires no callback, and the same characteristic with the same bytes twice
\* in a row fires each registered callback at most once in total.
C3_Dedup ==
    [][/\ (/\ last'.act = "notification"
           /\ SameAsStored(sessions[last'.arg[1]].inst, last'.arg[2], last'.arg[3]))
          => last'.fired = <<>>
       /\ (/\ last.act = "notification"
           /\ last'.act = "notification"
           /\ last'.arg = last.arg)
          => Len(last.fired) + Len(last'.fired) <= Len(callbacks)]_vars

(* C4 *)
\* the step is a read of a poll that does not end the poll with success: a
\* read that raised, an earlier read that returned, or a last read whose
\* payloads failed to decode
UnfinishedPollStep ==
    \/ last'.act = "read_failed"
    \/ last'.act = "read_returned" /\ (last'.raised \/ tasks'[last'.t].pc = "read")

\* C4: a poll whose N-th read fails, or whose payloads do not decode, and a
\* notification whose payload does not decode, leave DeviceState as it was
\* and fire no callback; no read of a poll applies a field on its own.
C4_FailureKeepsState ==
    [][(UnfinishedPollStep \/ (last'.act = "notification" /\ last'.raised))
          => (StateUntouched /\ last'.fired = <<>>)]_vars

\* the fifth read of a poll has failed on an instance whose state an earlier
\* poll had filled
C4_Witness ==
    /\ last.act = "read_failed"
    /\ last.arg = <<5>>
    /\ LastTask.op = "poll"
    /\ DeviceState(LastTask.inst).actual_temperature = Some(70)

(* C5 *)
\* the last step is a failure inside the connect sequence of a connect()
ConnectJustFailed ==
    /\ last.raised
    /\ last.act \in {"establish_failed", "read_failed", "read_returned",
                     "start_notify_failed"}
    /\ LastTask.op = "connect"

\* C5: when connect() fails at the open, the initial poll or a
\* subscription, the caller gets the error, the lock is released and the
\* instance keeps no live handle.
C5_RolledBack ==
    ConnectJustFailed =>
        /\ LastTask.pc = "failed"
        /\ lock.holder # last.t
        /\ ~HandleLive(LastTask.inst)

(* C6 *)
\* C6: the disconnected callback sets connected to false in DeviceState and
\* changes nothing else: every sensor field, the handle, the sessions, the
\* lock and the tasks stay; it makes no transport call and raises nothing,
\* whenever and however often the transport calls it.
C6_CallbackKeepsHistory ==
    [][last'.act = "disconnected_callback" =>
          LET i == sessions[last'.arg[1]].inst IN
          /\ stateRef' = stateRef
          /\ objs' = [objs EXCEPT ![stateRef[i]].connected = FALSE]
          /\ last'.io = <<>>
          /\ ~last'.raised
          /\ client' = client
          /\ sessions' = sessions
          /\ tasks' = tasks]_vars

\* the callback has run after an unsolicited drop of a connected and polled
\* instance
C6_Witness ==
    /\ last.act = "disconnected_callback"
    /\ \A t \in Tasks : tasks[t].op \in {"none", "connect"}
    /\ \E t \in Tasks : tasks[t].op = "connect" /\ tasks[t].pc = "done"
    /\ ~DeviceState(1).connected
    /\ DeviceState(1).actual_temperature = Some(70)
    /\ DeviceState(1).power # None

(* C7 *)
\* C7: when stop() completes on a connected instance, the session is
\* closed, the handle is None and DeviceState has connected = false.
C7_StopMarksDisconnected ==
    (/\ last.act = "disconnect_returned"
     /\ LastTask.op = "stop"
     /\ \E t \in Tasks : tasks[t].op = "connect" /\ tasks[t].pc = "done") =>
        /\ LastTask.pc = "done"
        /\ ~sessions[last.arg[1]].live
        /\ client[LastTask.inst] = 0
        /\ ~DeviceState(LastTask.inst).connected

(* C8 *)
\* the step runs the locked body of a stop() of instance i
StopBodyRuns(i) ==
    /\ last'.act \in {"stop", "acquire"}
    /\ tasks'[last'.t].op = "stop"
    /\ tasks'[last'.t].inst = i
    /\ tasks'[last'.t].pc # "wait_lock"

\* C8: a stop() that finds the instance disconnected (no handle, or a
\* handle whose link is down) makes no transport call, fires no callback,
\* raises nothing, leaves DeviceState and the sessions unchanged and
\* returns with the handle None and the lock free.
C8_StopIdempotent ==
    [][\A i \in Devices :
          (StopBodyRuns(i) /\ ~HandleLive(i)) =>
              /\ last'.io = <<>>
              /\ last'.fired = <<>>
              /\ ~last'.raised
              /\ StateUntouched
              /\ sessions' = sessions
              /\ tasks'[last'.t].pc = "done"
              /\ client'[i] = 0
              /\ lock'.holder = 0]_vars

\* a stop() has returned at once on an instance that was connected and
\* polled and whose link had dropped
C8_Witness ==
    /\ last.act = "stop"
    /\ LastTask.pc = "done"
    /\ last.io = <<>>
    /\ Len(sessions) = 1
    /\ ~sessions[1].live
    /\ \E t \in Tasks : tasks[t].op = "connect" /\ tasks[t].pc = "done"
    /\ DeviceState(1).actual_temperature = Some(70)

(* C9 *)
\* the step is a call of a setter of instance i
SetterCalled(i) ==
    /\ last'.act \in SetterOps
    /\ tasks'[last'.t].inst = i

\* C9: a setter called with no live handle (None, or the link dropped)
\* first goes into connect(), so its call issues no write.
C9_ConnectsFirst ==
    [][\A i \in Devices :
          (SetterCalled(i) /\ ~HandleLive(i)) =>
              /\ tasks'[last'.t].pc \in {"establish", "wait_lock"}
              /\ \A k \in 1..Len(last'.io) : last'.io[k].call # "write"]_vars

(* C10 *)
\* C10: when the write of a setter returns, the setter returns with its
\* field of DeviceState equal to the value written and every other field
\* as it was; when the write raises, the setter raises and DeviceState is
\* unchanged.
C10_Optimistic ==
    [][/\ last'.act = "write_returned" =>
              LET t == last'.t
                  i == tasks[t].inst
                  f == SetterField(tasks[t].op)
              IN  /\ tasks'[t].pc = "done"
                  /\ objs'[stateRef'[i]][f] = tasks[t].arg
                  /\ \A g \in (SensorFields \cup {"connected"}) \ {f} :
                         objs'[stateRef'[i]][g] = objs[stateRef[i]][g]
       /\ last'.act = "write_failed" =>
              /\ tasks'[last'.t].pc = "failed"
              /\ last'.raised
              /\ StateUntouched]_vars

\* set_temperature(72) has returned on a connected and polled instance
C10_Witness ==
    /\ last.act = "write_returned"
    /\ LastTask.op = "set_temperature"
    /\ LastTask.pc = "done"
    /\ DeviceState(1).set_temperature = Some(72)
    /\ DeviceState(1).actual_temperature = Some(70)
    /\ \E t \in Tasks : tasks[t].op = "connect" /\ tasks[t].pc = "done"

(* C11 *)
\* no poll has ever filled DeviceState of instance i
Fresh(i) == \A f \in SensorFields : DeviceState(i)[f] = None

\* the step is the last read of the initial poll of the connect() that task
\* 1 runs, and the payloads decode
InitialPollApplied ==
    /\ last'.act = "read_returned"
    /\ last'.t = 1
    /\ tasks[1].op = "connect"
    /\ tasks'[1].pc = "sub"

\* C11: on a fresh instance, over all the steps of a connect() the
\* registered callback is fired at one step only, the end of the initial
\* poll, and there exactly once, with a DeviceState that holds the decoded
\* values of the payloads read (power 1 -> true, mode 1 -> Regular, 68, 70)
\* and connected = true; the subscriptions that follow leave that state as
\* it is, and it is the state the instance has when connect() returns.
C11_FreshConnect ==
    [][(last'.t = 1 /\ tasks'[1].op = "connect") =>
          IF InitialPollApplied
          THEN Fresh(tasks[1].inst) =>
               LET i == tasks[1].inst
                   buf == tasks[1].buf
                   new == objs'[stateRef'[i]]
               IN  /\ new.power = Some(buf[1] # <<0>>)
                   /\ buf[2] = <<1>> => new.mode = Some("Regular")
                   /\ new.set_temperature = Some(buf[3][1])
                   /\ new.actual_temperature = Some(buf[4][1])
                   /\ new.water_level = Some(buf[5][1])
                   /\ new.pump_watts = Some(buf[6][1])
                   /\ new.pump_volts = Some(buf[7][1])
                   /\ new.clean = Some(buf[8] # <<0>>)
                   /\ new.name \in {Some(d) : d \in Payloads("NAME_CHAR")}
                   /\ new.connected
                   /\ last'.fired = [k \in 1..Len(callbacks) |->
                                        [cb |-> callbacks[k], inst |-> i,
                                         state |-> new]]
          ELSE /\ last'.fired = <<>>
               /\ last'.act = "start_notify_returned" => StateUntouched]_vars

\* connect() has returned on an instance with one callback registered, and
\* DeviceState holds the decoded values of the example
C11_Witness ==
    /\ last.act = "start_notify_returned"
    /\ last.t = 1
    /\ tasks[1].op = "connect"
    /\ tasks[1].pc = "done"
    /\ Len(callbacks) = 1
    /\ DeviceState(1).power = Some(TRUE)
    /\ DeviceState(1).mode = Some("Regular")
    /\ DeviceState(1).set_temperature = Some(68)
    /\ DeviceState(1).actual_temperature = Some(70)
    /\ DeviceState(1).connected

(* C12 *)
\* the sessions of instance i that are open: opened, not dropped, not closed
LiveSessions(i) ==
    {s \in 1..Len(sessions) : sessions[s].inst = i /\ sessions[s].live}

\* C12: in every reachable state an instance has at most one live transport
\* session.
C12_OneLiveSession ==
    \A i \in Devices : Cardinality(LiveSessions(i)) <= 1

(* C13 *)
\* the valid domain of a setter's argument
ValidArgument(op, v) ==
    CASE op = "set_mode" -> v \in {"Silent", "Regular", "Boost"}
      [] op = "set_temperature" -> v \in 0..255
      [] OTHER -> v \in BOOLEAN

\* C13: every value of a field's valid domain (booleans, the modes Silent /
\* Regular / Boost, the temperatures 0..255) is encoded by its setter, as
\* one byte; the handler decodes those bytes without an error, and the
\* decoded value is the value that was encoded.
C13_RoundTrip ==
    /\ last.act = "encode_failed" => ~ValidArgument(last.arg[1], last.arg[2])
    /\ last.act = "encoded" =>
           /\ ValidArgument(last.arg[1], last.arg[2])
           /\ Len(last.io[1].data) = 1
           /\ NotifyDecodeOk(last.io[1].ch, last.io[1].data)
    /\ last.act = "decoded" => last.arg[3] = last.arg[2]

\* the mode Boost has gone through set_mode's encoding and the handler's
\* decoding
C13_Witness ==
    /\ last.act = "decoded"
    /\ last.arg = <<"set_mode", "Boost", "Boost">>
    /\ last.io[1].data = <<2>>

(* C14 *)
\* C14: when the write of a setter returns, every registered callback is
\* fired exactly once, with the new DeviceState, if the value written
\* differs from the stored one, and no callback is fired if it equals the
\* stored one.
C14_ChangeGated ==
    [][last'.act = "write_returned" =>
          LET t == last'.t
              i == tasks[t].inst
              f == SetterField(tasks[t].op)
          IN  IF objs[stateRef[i]][f] # tasks[t].arg
              THEN last'.fired = [k \in 1..Len(callbacks) |->
                                     [cb |-> callbacks[k], inst |-> i,
                                      state |-> objs'[stateRef'[i]]]]
              ELSE last'.fired = <<>>]_vars

(* C15 *)
\* the object that instance i has as its state was built by a poll, which
\* handed it to the callbacks; the state accessor returns it to any caller
HandedOut(i) == stateRef[i] = i

\* C15: a DeviceState object handed out is never changed afterwards: a
\* notification and the disconnected callback leave the object that was the
\* stored state before the step as it was (they store a new object).
C15_SnapshotsImmutable ==
    [][last'.act \in {"notification", "disconnected_callback"} =>
          \A i \in Devices :
              HandedOut(i) => objs'[stateRef[i]] = objs[stateRef[i]]]_vars

(* C16 *)
\* the last step completed a stop() of an instance a connect() had connected
StopJustCompleted ==
    /\ last.act \in {"stop", "acquire", "disconnect_returned"}
    /\ LastTask.op = "stop"
    /\ LastTask.pc = "done"
    /\ \E t \in Tasks : tasks[t].op = "connect" /\ tasks[t].pc = "done"

\* C16: when stop() has completed, no idle-disconnect timer of the instance
\* is pending.
C16_StopCancelsTimer ==
    StopJustCompleted =>
        /\ scheduled[LastTask.inst] = 0
        /\ ~disconnect_timer[LastTask.inst]

(* C17 *)
\* delays that switch the idle disconnect off
NonPositiveDelays == {0 - 1, 0}

\* C17: an instance never has more than one idle-disconnect timer pending,
\* and the pending one is the one whose handle the instance keeps; a re-arm
\* with a non-positive delay cancels the pending timer and schedules none.
C17_OneTimer ==
    \A i \in Devices :
        /\ scheduled[i] = (IF disconnect_timer[i] THEN 1 ELSE 0)
        /\ \A d \in NonPositiveDelays :
               ResetDisconnectTimerAfter(World, i, d).scheduled[i] = 0

\* a connect() that waited for the lock has found the instance connected
\* and re-armed the timer that was pending
C17_Witness ==
    /\ last.act = "acquire"
    /\ LastTask.op = "connect"
    /\ LastTask.pc = "done"
    /\ disconnect_timer[LastTask.inst]
    /\ scheduled[LastTask.inst] = 1

(* C18 *)
\* the connect() of the host has returned normally
ConnectSucceeded == tasks[1].op = "connect" /\ tasks[1].pc = "done"

\* instance i is disconnected: no handle, no open session, no subscription
\* on an open session
Shut(i) ==
    /\ client[i] = 0
    /\ \A s \in 1..Len(sessions) :
           sessions[s].inst = i => ~sessions[s].live

\* the task the idle timer made has run the disconnect path to its end, or
\* the transport has raised in one of its unsubscribe / close calls
IdleDisconnectRan ==
    \E t \in Tasks :
        /\ tasks[t].op = "timed_disconnect"
        /\ \/ tasks[t].pc = "failed"
           \/ tasks[t].pc = "done" /\ Shut(tasks[t].inst)

Progress(task) ==
    CASE task.pc = "wait_lock" -> 1
      [] task.pc = "establish" -> 2
      [] task.pc = "read" -> 10 + task.idx
      [] task.pc = "sub" -> 30 + task.idx
      [] task.pc \in {"done", "failed"} -> 100
      [] OTHER -> 0

\* C19: a poll() called with no handle goes into connect() and issues no
\* read of its own; every step of a poll() task takes it strictly forward
\* (lock, open, reads, subscriptions, end), so it enters connect() and the
\* open at most once and ends after a bounded number of steps; it never
\* waits for a lock it holds; when the connect() it called returns or
\* raises, the poll() returns or raises with it, and the lock is free of it.
C19_PollConnectsOnce ==
    [][\A t \in Tasks :
          (last'.t = t /\ tasks'[t].op = "poll") =>
              /\ Progress(tasks'[t]) > Progress(tasks[t])
              /\ (last'.act = "poll" /\ client[tasks'[t].inst] = 0) =>
                     /\ tasks'[t].pc \in {"wait_lock", "establish"}
                     /\ \A k \in 1..Len(last'.io) : last'.io[k].call = "establish"
              /\ lock'.holder = t =>
                     \A k \in 1..Len(lock'.waiters) : lock'.waiters[k] # t
              /\ (lock.holder = t /\ lock'.holder # t) =>
                     tasks'[t].pc = (IF last'.raised THEN "failed" ELSE "done")
              /\ tasks'[t].pc \in {"done", "failed"} => lock'.holder # t]_vars

\* a poll() called with no handle has returned from the connect() it made
C19_Witness ==
    /\ last.act = "start_notify_returned"
    /\ LastTask.op = "poll"
    /\ LastTask.pc = "done"
    /\ lock.holder = 0
    /\ HandleLive(LastTask.inst)

(* C20 *)
\* C20: a notification of a characteristic the handler has no branch for
\* changes no DeviceState, fires no callback and raises nothing.
C20_UnmappedIgnored ==
    [][last'.act = "stray_notification" =>
          /\ StateUntouched
          /\ last'.fired = <<>>
          /\ ~last'.raised]_vars


(* ------------------------------------------------------------ C21 *)
\* the instance a step belongs to: the task's, or the session's for a step
\* of the transport; 0 for a step of the host that belongs to none
Actor ==
    IF last.t # 0 THEN tasks[last.t].inst
    ELSE IF last.act \in {"notification", "disconnected_callback", "link_dropped"}
         THEN sessions[last.arg[1]].inst
         ELSE 0

\* no task waits for the lock while a task of another instance holds it
NoForeignWait ==
    \A t \in Tasks :
        (tasks[t].pc = "wait_lock" /\ lock.holder # 0)
            => tasks[lock.holder].inst = tasks[t].inst

\* a step of one instance leaves the DeviceState of every other as it was
NoForeignWrite ==
    \A j \in Instances :
        (Actor' # 0 /\ Actor' # j) => DeviceState(j)' = DeviceState(j)

\* a callback registered on Watched is fired by the events of Watched only
NoForeignFire ==
    \A k \in 1..Len(last'.fired) : last'.fired[k].inst = Watched

\* C21: two device instances share nothing: a connect() in progress on one
\* never makes a connect() of the other wait, a step of one never changes
\* the DeviceState of the other, and a callback registered on one is never
\* fired by an event of the other.
C21_Isolated ==
    [][NoForeignWait' /\ NoForeignWrite /\ NoForeignFire]_vars

C21_NoSharedLock == [][NoForeignWait']_vars
C21_NoSharedState == [][NoForeignWrite]_vars
C21_NoSharedCallbacks == [][NoForeignFire]_vars

(* ------------------------------------------------------------ C22 *)
\* the awaits inside `async with self._connect_lock`: the open, the reads
\* of the initial poll, the subscriptions; the unsubscriptions, the close.
\* A read of a task that called async_poll() is left out: it may be a poll
\* of its own, which is no transition
InTransition(t) ==
    \/ tasks[t].pc \in {"establish", "sub", "unsub", "disc"}
    \/ tasks[t].pc = "read" /\ tasks[t].op # "poll"

Waiting(t) == tasks[t].pc = "wait_lock"

\* C22: the connection lock serializes transitions: at most one task of an
\* instance is inside the body of a connect or a disconnect transition,
\* started by stop() or by the idle timer; it is the holder of the lock,
\* and the callers that wait are exactly the ones queued on the lock.
C22_Serialized ==
    /\ \A i \in Instances :
           Cardinality({t \in Tasks : tasks[t].inst = i /\ InTransition(t)}) <= 1
    /\ \A t \in Tasks : InTransition(t) => lock.holder = t
    /\ \A t \in Tasks :
           Waiting(t) <=> (\E k \in 1..Len(lock.waiters) : lock.waiters[k] = t)

\* a connect is inside its body and the task of the idle timer waits
C22_Witness ==
    \E t, u \in Tasks :
        /\ tasks[t].op = "connect" /\ InTransition(t)
        /\ tasks[u].op = "timed_disconnect" /\ Waiting(u)
        /\ tasks[u].inst = tasks[t].inst

\* the task of the idle timer is inside the body of a disconnect
C22_TimedWitness ==
    \E t \in Tasks :
        tasks[t].op = "timed_disconnect" /\ tasks[t].pc \in {"unsub", "disc"}

(* ------------------------------------------------------------ C23 *)
\* the step in which the task of the idle timer takes the handle of a
\* connection that is up and starts to close it
TimedClose(i) ==
    /\ last'.t # 0
    /\ LastTask'.op = "timed_disconnect"
    /\ LastTask'.inst = i
    /\ HandleLive(i)
    /\ client'[i] = 0

\* C23: an idle-timer firing only closes the connection it was armed for:
\* the timer's task never starts to close a connection while a timer armed
\* after the one that made the task is pending.  (An instance has at most
\* one timer pending, so a timer pending while the task of a fired one
\* exists was armed after that one fired.)
C23_TimerClosesItsOwn ==
    [][\A i \in Devices : TimedClose(i) => scheduled[i] = 0]_vars

(* ------------------------------------------------------------ C24 *)
\* the step before this one delivered a notification to instance i, and
\* task t was then, as it is now, a poll of i suspended in its last read:
\* it had read every characteristic that is notified
NotifiedInLastRead(t, i) ==
    /\ last.act = "notification"
    /\ ~last.raised
    /\ sessions[last.arg[1]].inst = i
    /\ tasks[t].inst = i
    /\ tasks[t].pc = "read"
    /\ tasks[t].idx = Len(PollChars)

\* the last read of the poll of task t returns and the poll applies its state
PollApplies(t) ==
    /\ last'.act = "read_returned"
    /\ last'.t = t
    /\ ~last'.raised

\* C24: a poll never overwrites newer data with older data: when a
\* notification of a characteristic is delivered while the poll is
\* suspended after having read it, the DeviceState the poll applies holds
\* the notified value of the field, not the value the poll read.
C24_PollKeepsNewer ==
    [][\A t \in Tasks, i \in Devices :
           (NotifiedInLastRead(t, i) /\ PollApplies(t))
               => DeviceState(i)'[NotifyField(last.arg[2])]
                      = Some(NotifyValue(last.arg[2], last.arg[3]))]_vars

====
